---- MODULE Spec2Model ----
(***************************************************************************)
(* effortless_config: a configuration class (ConfigMeta / Config) with its *)
(* settings table, the per-setting current-value slots, and the operations *)
(* set_group, reset_to_defaults, override (permanent or as a with-block)   *)
(* and parse_args, as implemented in src/effortless_config/config.py.      *)
(***************************************************************************)
EXTENDS Integers, Sequences, FiniteSets, TLC

\* ---------------------------------------------------------------- bounds
\* items of a class body, the groups line apart
MaxBody == 2
\* open with-blocks at a time
MaxDepth == 2
\* keyword arguments of one override(...) call
MaxKw == 2
\* option/value pairs of one argv
MaxArgs == 2

\* ------------------------------------------------------- Python values
\* A Python value is its type and its canonical repr.
Val(t, r) == [type |-> t, repr |-> r]
PyInt(r) == Val("int", r)
PyBool(r) == Val("bool", r)
PyStr(r) == Val("str", r)
None == Val("NoneType", "None")

Range(f) == {f[x] : x \in DOMAIN f}

\* The empty dict.
EmptyDict == [k \in {} |-> None]

\* -------------------------------------------------------------- Setting
\* type inference of Setting.__init__: the default's type, else the common
\* type of the group values, else str.
SettingTypeOf(default, kwargs) ==
    IF default = None
    THEN IF DOMAIN kwargs # {}
         THEN (CHOOSE v \in Range(kwargs) : TRUE).type
         ELSE "str"
    ELSE default.type

Setting(default, kwargs) ==
    [default |-> default,
     group_values |-> kwargs,
     type |-> SettingTypeOf(default, kwargs)]

\* Values of the types outside SUPPORTED_TYPES that the tests declare.
PyFloat(r) == Val("float", r)
PyList(r) == Val("list", r)
PyDict(r) == Val("dict", r)

SUPPORTED_TYPES == {"int", "float", "str", "bool", "NoneType"}

\* _get_common_type(values): <<the type>>, or <<>> when it raises ValueError.
get_common_type(values) ==
    LET first_type == (CHOOSE v \in values : TRUE).type IN
    IF \A v \in values : v.type = first_type THEN <<first_type>> ELSE <<>>

\* Setting.__init__ raises ValueError: the group values of a None default
\* have no common type, or the setting's type is not supported.
Setting_raises(default, kwargs) ==
    \/ /\ default = None
       /\ DOMAIN kwargs # {}
       /\ get_common_type(Range(kwargs)) = <<>>
    \/ SettingTypeOf(default, kwargs) \notin SUPPORTED_TYPES

\* ------------------------------------------------------ class statement
\* One item of a class body (the namespace handed to ConfigMeta.__new__):
\* KEY = Setting(default, **kwargs), KEY = value, def key(...), and the
\* line groups = [...].
Item(key, kind, default, kwargs, names) ==
    [key |-> key, kind |-> kind, default |-> default, kwargs |-> kwargs,
     names |-> names]
SettingItem(key, default, kwargs) == Item(key, "Setting", default, kwargs, <<>>)
ValueItem(key, value) == Item(key, "value", value, EmptyDict, <<>>)
FunctionItem(key) == Item(key, "function", None, EmptyDict, <<>>)
GroupsItem(names) == Item("groups", "value", None, EmptyDict, names)

\* The characters of the attribute names of the model.
KeyChars ==
    [S1 |-> <<"S", "1">>,
     SECOND_OPTION |-> <<"S", "E", "C", "O", "N", "D", "_", "O", "P", "T", "I", "O", "N">>,
     FOO |-> <<"F", "O", "O">>,
     Abc |-> <<"A", "b", "c">>,
     adsf |-> <<"a", "d", "s", "f">>,
     _X |-> <<"_", "X">>]

Upper ==
    {"A", "B", "C", "D", "E", "F", "G", "H", "I", "J", "K", "L", "M",
     "N", "O", "P", "Q", "R", "S", "T", "U", "V", "W", "X", "Y", "Z"}
Digits == {"0", "1", "2", "3", "4", "5", "6", "7", "8", "9"}

\* The number of characters that [A-Z0-9_]* consumes from position i on.
RECURSIVE star_match(_, _)
star_match(chars, i) ==
    IF i <= Len(chars) /\ chars[i] \in Upper \cup Digits \cup {"_"}
    THEN 1 + star_match(chars, i + 1)
    ELSE 0

\* Mutant: the whole key must match.
re_match_full(chars) ==
    IF chars # <<>> /\ chars[1] \in Upper /\ 1 + star_match(chars, 2) = Len(chars)
    THEN 1 + star_match(chars, 2)
    ELSE 0

\* re.match(SETTING_FORMAT, key): the length of the match at the start of
\* the key, 0 for no match (None). The match need not reach the key's end.
re_match(chars) ==
    IF chars # <<>> /\ chars[1] \in Upper
    THEN 1 + star_match(chars, 2)
    ELSE 0

\* _validate_setting_key(key) returns (TRUE) or raises ValueError (FALSE).
validate_setting_key(key) == re_match(KeyChars[key]) # 0

startswith(key, prefix) == KeyChars[key][1] = prefix

\* callable(value) or isinstance(value, classmethod)
callable(item) == item.kind \in {"function", "classmethod"}

\* namespace.get('groups', [])
namespace_get_groups(ns) ==
    IF \E i \in DOMAIN ns : ns[i].key = "groups"
    THEN ns[CHOOSE i \in DOMAIN ns : ns[i].key = "groups"].names
    ELSE <<>>

\* Mutant: the groups declared above the setting's line.
undefined_groups_so_far(ns, i) ==
    DOMAIN ns[i].kwargs \ UNION {Range(ns[j].names) : j \in 1..(i - 1)}

\* undefined_groups = set(value.group_values.keys()) - set(groups)
undefined_groups(ns, i) == DOMAIN ns[i].kwargs \ Range(namespace_get_groups(ns))

\* A class: its groups, its _settings table with the order of insertion,
\* the attributes that hold the settings' current values, and the names
\* passed through as plain attributes.
Class(g, s, o, a, p) ==
    [groups |-> g, settings |-> s, order |-> o, attrs |-> a, passed |-> p]
NoClass == Class(<<>>, EmptyDict, <<>>, EmptyDict, {})

\* The loop of ConfigMeta.__new__ from item i on; cls is what the items
\* before i have built. Returns the class and whether ValueError was raised.
RECURSIVE ConfigMeta_new_loop(_, _, _)
ConfigMeta_new_loop(ns, i, cls) ==
    IF i > Len(ns) THEN [cls |-> cls, raised |-> FALSE]
    ELSE LET key == ns[i].key
             add(setting, value) ==
                 Class(cls.groups,
                       [k \in DOMAIN cls.settings \cup {key} |->
                           IF k = key THEN setting ELSE cls.settings[k]],
                       IF key \in DOMAIN cls.settings THEN cls.order
                       ELSE Append(cls.order, key),
                       [k \in DOMAIN cls.attrs \cup {key} |->
                           IF k = key THEN value ELSE cls.attrs[k]],
                       cls.passed)
         IN  IF key = "groups"
             THEN ConfigMeta_new_loop(ns, i + 1, cls)
             ELSE IF ns[i].kind = "Setting"
             THEN IF ~validate_setting_key(key) \/ undefined_groups(ns, i) # {}
                  THEN [cls |-> cls, raised |-> TRUE]
                  ELSE ConfigMeta_new_loop(ns, i + 1,
                           add(Setting(ns[i].default, ns[i].kwargs), ns[i].default))
             ELSE IF /\ ~callable(ns[i])
                     /\ ~startswith(key, "_")
                     /\ key \notin DOMAIN cls.settings
             THEN IF ~validate_setting_key(key) \/ Setting_raises(ns[i].default, EmptyDict)
                  THEN [cls |-> cls, raised |-> TRUE]
                  ELSE ConfigMeta_new_loop(ns, i + 1,
                           add(Setting(ns[i].default, EmptyDict), ns[i].default))
             ELSE ConfigMeta_new_loop(ns, i + 1,
                      [cls EXCEPT !.passed = cls.passed \cup {key}])

\* ConfigMeta.__new__(mcs, name, bases, namespace): groups and _settings are
\* taken from the class body alone (namespace.get), not from the bases.
ConfigMeta_new(bases, ns) ==
    ConfigMeta_new_loop(ns, 1, Class(namespace_get_groups(ns), EmptyDict, <<>>, EmptyDict, {}))

\* The class statement: the body is evaluated first, where a Setting(...)
\* call may raise, and then handed to ConfigMeta.__new__.
class_statement(bases, ns) ==
    IF \E i \in DOMAIN ns :
          ns[i].kind = "Setting" /\ Setting_raises(ns[i].default, ns[i].kwargs)
    THEN [cls |-> NoClass, raised |-> TRUE]
    ELSE ConfigMeta_new(bases, ns)

\* ------------------------------------------------- declared classes
\* The configuration classes the model ranges over: the class of the tests,
\* groups = ['foo', 'bar'], S1 = setting(10, foo=20), SECOND_OPTION =
\* setting(True, bar=False), and the same settings declared without groups.
SettingNames == {"S1", "SECOND_OPTION"}
GroupNames == {"foo", "bar"}
GroupLists == {<<>>, <<"foo", "bar">>}

\* The groups a setting of the model may give a value for.
GroupKeysOf(name) == IF name = "S1" THEN {"foo"} ELSE {"bar"}

DefaultOf(name) == IF name = "S1" THEN PyInt("10") ELSE PyBool("True")

GroupValueOf(name, g) == IF name = "S1" THEN PyInt("20") ELSE PyBool("False")

Declarations(gl) ==
    { [n \in SettingNames |->
          Setting(DefaultOf(n),
                  [g \in GroupKeysOf(n) \cap Range(gl) |-> GroupValueOf(n, g)])] }

\* The class statements of those classes.
ClassBody(gl) ==
    (IF gl = <<>> THEN <<>> ELSE <<GroupsItem(gl)>>)
    \o <<SettingItem("S1", DefaultOf("S1"),
                     [g \in GroupKeysOf("S1") \cap Range(gl) |-> GroupValueOf("S1", g)]),
         SettingItem("SECOND_OPTION", DefaultOf("SECOND_OPTION"),
                     [g \in GroupKeysOf("SECOND_OPTION") \cap Range(gl) |->
                         GroupValueOf("SECOND_OPTION", g)])>>

\* ---------------------------------------------------------------- state
VARIABLES
    groups,     \* cls.groups: the declared group names (a list)
    settings,   \* cls._settings: name -> Setting
    cur,        \* the class attributes that hold the current values
    stack,      \* the open with-blocks: their _OverrideContextManager objects
    exc,        \* the exception now propagating, "none" when there is none
    last,       \* the last operation, its argument and outcome (history)
    vals,       \* the values before the outermost open with-block, then the
                \* keyword values of every open with-block (history, kept
                \* by SpecNested, and by SpecHandles for every handle created)
    unclosed,   \* name -> the value a permanent override gave it and the
                \* with-blocks open at that call, while no later call has
                \* written the name (history, kept only by SpecUnclosed)
    namespace,  \* the body of the class statement that declares the class:
                \* its (key, value) items in order (SpecDeclare, SpecEq)
    other       \* a second configuration class, or NoClass (SpecDeclare,
                \* SpecEq)

vars == <<groups, settings, cur, stack, exc, last, vals, unclosed, namespace, other>>

\* The history record of an operation.
Op(name) ==
    [op |-> name, group |-> "", argv |-> <<>>, keys |-> {}, ok |-> TRUE,
     status |-> 0]

\* ConfigMeta.__new__: every setting's slot starts at its default.
Init ==
    \E gl \in GroupLists : \E s \in Declarations(gl) :
        /\ groups = gl
        /\ settings = s
        /\ cur = [n \in DOMAIN s |-> s[n].default]
        /\ stack = <<>>
        /\ exc = "none"
        /\ last = Op("declare")
        /\ vals = <<>>
        /\ unclosed = EmptyDict
        /\ namespace = ClassBody(gl)
        /\ other = NoClass

\* ------------------------------------------------------------ set_group
\* Mutant: a setting without a value for the group keeps its current value.
set_group_values_keep(group_name) ==
    [name \in DOMAIN settings |->
        IF group_name \in DOMAIN settings[name].group_values
        THEN settings[name].group_values[group_name]
        ELSE cur[name]]

\* The loop of set_group: the group's value where the setting has one, else
\* the default.
set_group_values(group_name) ==
    [name \in DOMAIN settings |->
        IF group_name \in DOMAIN settings[name].group_values
        THEN settings[name].group_values[group_name]
        ELSE settings[name].default]

\* Mutant: the membership check is missing.
set_group_accepts_any(group_name) == TRUE

\* The check of line 137.
set_group_accepts(group_name) == group_name \in Range(groups)

set_group(group_name) ==
    /\ exc = "none"
    /\ IF ~set_group_accepts(group_name)
       THEN /\ exc' = "ValueError"
            /\ cur' = cur
            /\ last' = [Op("set_group") EXCEPT !.group = group_name, !.ok = FALSE]
       ELSE /\ cur' = set_group_values(group_name)
            /\ exc' = exc
            /\ last' = [Op("set_group") EXCEPT !.group = group_name]
    /\ UNCHANGED <<groups, settings, stack>>

\* ---------------------------------------------------- reset_to_defaults
\* Mutant: only the settings that have group values are reset.
reset_values_grouped ==
    [name \in DOMAIN settings |->
        IF DOMAIN settings[name].group_values # {}
        THEN settings[name].default
        ELSE cur[name]]

\* The loop of reset_to_defaults.
reset_values == [name \in DOMAIN settings |-> settings[name].default]

reset_to_defaults ==
    /\ exc = "none"
    /\ cur' = reset_values
    /\ last' = Op("reset_to_defaults")
    /\ UNCHANGED <<groups, settings, stack, exc>>

\* ------------------------------------------------------------- override
\* The keyword arguments the model passes to override: existing settings
\* and one name that is no attribute of the class.
KwKeys == SettingNames \cup {"NOPE"}

KwValues(key) ==
    IF key = "S1" THEN {PyInt("100"), PyInt("1000")}
    ELSE IF key = "SECOND_OPTION" THEN {PyBool("False")}
    ELSE {PyInt("1")}

KwPairs == UNION {{<<k, v>> : v \in KwValues(k)} : k \in KwKeys}

\* **kwargs: an ordered dict, so a sequence of (key, value) with distinct keys.
KwArgs ==
    {kw \in UNION {[1..n -> KwPairs] : n \in 1..MaxKw} :
        \A i, j \in DOMAIN kw : kw[i][1] = kw[j][1] => i = j}

KwKeysOf(kw) == {kw[i][1] : i \in DOMAIN kw}
KwDict(kw) ==
    [k \in KwKeysOf(kw) |-> kw[CHOOSE i \in DOMAIN kw : kw[i][1] = k][2]]

\* hasattr(self.cls, key), over the attributes that hold the settings' values
\* (the class's other attributes, groups, _settings and the methods, are not
\* among the keyword names of the model).
hasattr(attrs, key) == key \in DOMAIN attrs

\* Mutant: the original value is read after the attribute is set.
override_step_late(c, o, key, value) ==
    [cur |-> [c EXCEPT ![key] = value],
     original_values |-> [k \in DOMAIN o \cup {key} |-> IF k = key THEN value ELSE o[k]]]

\* One iteration of the loop of _OverrideContextManager.__init__ on the
\* attributes c and the dict o of original values.
override_step(c, o, key, value) ==
    [cur |-> [c EXCEPT ![key] = value],
     original_values |-> [k \in DOMAIN o \cup {key} |-> IF k = key THEN c[key] ELSE o[k]]]

RECURSIVE override_loop(_, _, _, _)
override_loop(kw, i, c, o) ==
    IF i > Len(kw)
    THEN [cur |-> c, original_values |-> o, raised |-> FALSE]
    ELSE IF ~hasattr(c, kw[i][1])
         THEN [cur |-> c, original_values |-> o, raised |-> TRUE]
         ELSE LET r == override_step(c, o, kw[i][1], kw[i][2])
              IN  override_loop(kw, i + 1, r.cur, r.original_values)

\* _OverrideContextManager.__init__(cls, overrides)
OverrideContextManager_init(kw) == override_loop(kw, 1, cur, EmptyDict)

\* Mutant: the restore also resets every setting the call did not name.
OverrideContextManager_exit_all(scope) ==
    [n \in DOMAIN cur |->
        IF n \in DOMAIN scope.original_values
        THEN scope.original_values[n]
        ELSE settings[n].default]

\* Mutant: the restore writes the defaults of the named settings.
OverrideContextManager_exit_default(scope) ==
    [n \in DOMAIN cur |->
        IF n \in DOMAIN scope.original_values
        THEN settings[n].default
        ELSE cur[n]]

\* _OverrideContextManager.__exit__: the attributes after the restore.
OverrideContextManager_exit(scope) ==
    [n \in DOMAIN cur |->
        IF n \in DOMAIN scope.original_values
        THEN scope.original_values[n]
        ELSE cur[n]]

\* __exit__ returns None: the with statement does not suppress the exception.
exit_suppresses == FALSE

\* The object a with-block holds, with the values the named attributes held
\* before the call (pre) kept as history.
Scope(r, kw) ==
    [original_values |-> r.original_values,
     pre |-> [k \in KwKeysOf(kw) |-> cur[k]]]

\* cls.override(**kw), the handle dropped: a permanent override.
override(kw) ==
    /\ exc = "none"
    /\ LET r == OverrideContextManager_init(kw) IN
       /\ cur' = r.cur
       /\ exc' = IF r.raised THEN "ValueError" ELSE exc
       /\ last' = [Op("override") EXCEPT !.ok = ~r.raised]
    /\ UNCHANGED <<groups, settings, stack>>

\* with cls.override(**kw): the block is entered unless __init__ raised.
with_override(kw) ==
    /\ exc = "none"
    /\ Len(stack) < MaxDepth
    /\ LET r == OverrideContextManager_init(kw) IN
       /\ cur' = r.cur
       /\ exc' = IF r.raised THEN "ValueError" ELSE exc
       /\ stack' = IF r.raised THEN stack ELSE Append(stack, Scope(r, kw))
       /\ last' = [Op("with_override") EXCEPT !.ok = ~r.raised]
    /\ UNCHANGED <<groups, settings>>

\* The end of the innermost with-block, by normal completion or with an
\* exception propagating out of it: __exit__ runs, and the exception goes on
\* unless __exit__ returned a true value.
with_exit ==
    /\ stack # <<>>
    /\ LET scope == stack[Len(stack)] IN
       /\ cur' = OverrideContextManager_exit(scope)
       /\ stack' = SubSeq(stack, 1, Len(stack) - 1)
       /\ exc' = IF exit_suppresses THEN "none" ELSE exc
       /\ last' = [Op("with_exit") EXCEPT !.keys = DOMAIN scope.original_values]
    /\ UNCHANGED <<groups, settings>>

\* The caller catches the propagating exception (try/except, pytest.raises).
catch ==
    /\ exc # "none"
    /\ exc' = "none"
    /\ last' = Op("catch")
    /\ UNCHANGED <<groups, settings, cur, stack>>

\* ----------------------------------------------------------- parse_args
\* _config_name_to_arg_name: name.lower()
config_name_to_arg_name(name) == IF name = "S1" THEN "s1" ELSE "second_option"

\* _config_name_to_option: '--' + name.lower().replace('_', '-')
config_name_to_option(name) == IF name = "S1" THEN "--s1" ELSE "--second-option"

\* argparse's dest of a long option: the option without '--', '-' as '_'.
option_dest(option) ==
    IF option = "--s1" THEN "s1"
    ELSE IF option = "--second-option" THEN "second_option"
    ELSE "configuration"

\* int(token): the literals of the model and their values; any other token
\* raises ValueError.
IntLiterals == [t \in {"100", "0100"} |-> PyInt("100")]

\* The arguments parse_args adds to the parser, by option string.
parser_arguments ==
    LET conf == IF groups # <<>>
                THEN {[strings |-> {"--configuration", "-c"},
                       dest |-> "configuration",
                       type |-> "str",
                       choices |-> {"default"} \cup Range(groups)]}
                ELSE {}
        sets == {[strings |-> {config_name_to_option(name)},
                  dest |-> option_dest(config_name_to_option(name)),
                  type |-> IF settings[name].type = "bool" THEN "str"
                           ELSE settings[name].type,
                  choices |-> IF settings[name].type = "bool"
                              THEN {"true", "false"} ELSE {}] :
                 name \in DOMAIN settings}
    IN  conf \cup sets

\* The namespace before any argument is read: every dest None, and
\* configuration 'default'.
parser_defaults ==
    [d \in {a.dest : a \in parser_arguments} |->
        IF d = "configuration" THEN PyStr("default") ELSE None]

\* argparse's conversion and choices check of one token for argument a:
\* <<value>>, or <<>> when the token is rejected.
parser_convert(a, token) ==
    LET v == IF a.type = "int"
             THEN (IF token \in DOMAIN IntLiterals THEN <<IntLiterals[token]>> ELSE <<>>)
             ELSE IF a.type = "str" THEN <<PyStr(token)>>
             ELSE <<>>
    IN  IF v # <<>> /\ a.choices # {} /\ token \notin a.choices THEN <<>> ELSE v

\* parser.parse_args(argv): the option/value pairs are read in order, a later
\* one overwriting an earlier one of the same dest; an unknown option or a
\* rejected token is a usage error (SystemExit with status 2).
RECURSIVE parser_parse(_, _, _)
parser_parse(argv, i, ns) ==
    IF i > Len(argv)
    THEN [args |-> ns, error |-> FALSE]
    ELSE LET known == {a \in parser_arguments : argv[i][1] \in a.strings} IN
         IF known = {}
         THEN [args |-> ns, error |-> TRUE]
         ELSE LET a == CHOOSE x \in known : TRUE
                  v == parser_convert(a, argv[i][2])
              IN  IF v = <<>>
                  THEN [args |-> ns, error |-> TRUE]
                  ELSE parser_parse(argv, i + 1, [ns EXCEPT ![a.dest] = v[1]])

\* Lines 180-184: the group of --configuration, when the class has groups.
parse_args_group(args, c) ==
    IF groups # <<>>
    THEN (IF args["configuration"] = PyStr("default")
          THEN reset_values
          ELSE set_group_values(args["configuration"].repr))
    ELSE c

\* Lines 186-193: every flag that was given overwrites its setting.
parse_args_flags(args, c) ==
    [name \in DOMAIN settings |->
        LET arg_value == args[config_name_to_arg_name(name)] IN
        IF arg_value # None
        THEN (IF settings[name].type = "bool"
              THEN PyBool(IF arg_value = PyStr("true") THEN "True" ELSE "False")
              ELSE arg_value)
        ELSE c[name]]

\* Mutant: the group is applied after the flags.
parse_args_values_group_last(argv) ==
    LET p == parser_parse(argv, 1, parser_defaults) IN
    IF p.error THEN cur
    ELSE parse_args_group(p.args, parse_args_flags(p.args, cur))

\* Mutant: what was parsed before a usage error is applied.
parse_args_values_eager(argv) ==
    LET p == parser_parse(argv, 1, parser_defaults) IN
    parse_args_flags(p.args, parse_args_group(p.args, cur))

\* The current values after parse_args(argv).
parse_args_values(argv) ==
    LET p == parser_parse(argv, 1, parser_defaults) IN
    IF p.error THEN cur
    ELSE parse_args_flags(p.args, parse_args_group(p.args, cur))

\* The argument lists of the model: up to MaxArgs option/value pairs.
ArgPairs ==
    {<<"--s1", "100">>, <<"--s1", "0100">>, <<"--s1", "x">>,
     <<"--second-option", "false">>, <<"--second-option", "true">>,
     <<"--second-option", "True">>,
     <<"--configuration", "foo">>, <<"-c", "bar">>, <<"--configuration", "baz">>,
     <<"--bogus", "1">>}

Argvs == UNION {[1..n -> ArgPairs] : n \in 0..MaxArgs}

\* cls.parse_args(argv), called outside any with-block (the program's entry
\* point). A usage error raises SystemExit(2) before any setattr.
parse_args(argv) ==
    /\ exc = "none"
    /\ stack = <<>>
    /\ LET p == parser_parse(argv, 1, parser_defaults) IN
       /\ cur' = parse_args_values(argv)
       /\ exc' = IF p.error THEN "SystemExit" ELSE exc
       /\ last' = [Op("parse_args") EXCEPT !.argv = argv, !.ok = ~p.error,
                                           !.status = IF p.error THEN 2 ELSE 0]
    /\ UNCHANGED <<groups, settings, stack>>

\* ---------------------------------------------------- hash and equality
\* The numbers that the numeric values of the model stand for.
NumberOf ==
    [n \in {"10", "20", "100", "1000", "True", "False", "10.0"} |->
        IF n = "10" \/ n = "10.0" THEN 10
        ELSE IF n = "20" THEN 20
        ELSE IF n = "100" THEN 100
        ELSE IF n = "1000" THEN 1000
        ELSE IF n = "True" THEN 1
        ELSE 0]

\* hash(value): a number hashes to itself whatever its type (int, bool or an
\* integral float), except that -1 hashes to -2; a string or None has a hash
\* of its own.
PyHash(v) ==
    IF v.type \in {"int", "bool", "float"}
    THEN [of |-> "number", n |-> IF NumberOf[v.repr] = -1 THEN -2 ELSE NumberOf[v.repr], s |-> ""]
    ELSE [of |-> v.type, n |-> 0, s |-> v.repr]

\* hash(tuple): a function of the elements' hashes in order, kept symbolic.
tuple_hash(values) == [i \in DOMAIN values |-> PyHash(values[i])]

\* The names of the model in the order of Python's string comparison.
SortedKeys == <<"Abc", "FOO", "S1", "SECOND_OPTION", "_X", "adsf">>
sorted(keys) ==
    LET in(k) == k \in keys IN SelectSeq(SortedKeys, in)

\* Mutant: the values are hashed in the order of declaration.
ConfigMeta_hash_unsorted(cls) ==
    tuple_hash([i \in DOMAIN cls.order |-> cls.attrs[cls.order[i]]])

\* ConfigMeta.__hash__: the hash of the tuple of the current values, in the
\* order of the sorted setting names. The names are not part of the tuple.
ConfigMeta_hash(cls) ==
    tuple_hash([i \in DOMAIN sorted(DOMAIN cls.settings) |->
                   cls.attrs[sorted(DOMAIN cls.settings)[i]]])

\* ConfigMeta.__eq__ (every class of the model is a ConfigMeta).
ConfigMeta_eq(cls, o) == ConfigMeta_hash(o) = ConfigMeta_hash(cls)

\* base62.encode(n), kept symbolic: a token that is a function of n.
base62_encode(n) == [alphabet |-> "base62", of |-> n]

\* abs(hash), kept symbolic.
abs(h) == [abs |-> h]

\* ConfigMeta.to_hash_string
to_hash_string(cls) == base62_encode(abs(ConfigMeta_hash(cls)))

\* The keys of the class body ns that are in the table s, in body order.
RECURSIVE declared_order(_, _)
declared_order(ns, s) ==
    IF ns = <<>> THEN <<>>
    ELSE (IF ns[1].key \in DOMAIN s THEN <<ns[1].key>> ELSE <<>>)
         \o declared_order(Tail(ns), s)

\* The class of the state.
ThisClass == Class(groups, settings, declared_order(namespace, settings), cur, {})

\* ------------------------------------------------------- specifications
GroupArgs == GroupNames \cup {"default", "baz"}

Next ==
    \/ \E g \in GroupArgs : set_group(g) /\ UNCHANGED <<vals, unclosed, namespace, other>>
    \/ reset_to_defaults /\ UNCHANGED <<vals, unclosed, namespace, other>>
    \/ \E kw \in KwArgs : override(kw) /\ UNCHANGED <<vals, unclosed, namespace, other>>
    \/ \E kw \in KwArgs : with_override(kw) /\ UNCHANGED <<vals, unclosed, namespace, other>>
    \/ with_exit /\ UNCHANGED <<vals, unclosed, namespace, other>>
    \/ catch /\ UNCHANGED <<vals, unclosed, namespace, other>>
    \/ \E argv \in Argvs : parse_args(argv) /\ UNCHANGED <<vals, unclosed, namespace, other>>

Spec == Init /\ [][Next]_vars

\* Nested with-blocks over existing names only, with the keyword values of
\* every open block recorded; between blocks, a group may be selected.
ValidKwArgs == {kw \in KwArgs : KwKeysOf(kw) \subseteq SettingNames}

NextNested ==
    \/ \E kw \in ValidKwArgs :
          /\ with_override(kw)
          /\ vals' = (IF stack = <<>> THEN <<cur>> ELSE vals) \o <<KwDict(kw)>>
          /\ UNCHANGED <<unclosed, namespace, other>>
    \/ /\ with_exit
       /\ vals' = IF Len(stack) = 1 THEN <<>> ELSE SubSeq(vals, 1, Len(vals) - 1)
       /\ UNCHANGED <<unclosed, namespace, other>>
    \/ \E g \in Range(groups) : set_group(g) /\ stack = <<>> /\ UNCHANGED <<vals, unclosed, namespace, other>>

SpecNested == Init /\ [][NextNested]_vars

\* Permanent overrides (the handle of override(...) is dropped) among
\* with-blocks and the other writers, with the record of every name a
\* permanent override holds.
\* A permanent override of kw's names at the current depth of with-blocks.
unclosed_override(kw) ==
    [k \in DOMAIN unclosed \cup KwKeysOf(kw) |->
        IF k \in KwKeysOf(kw)
        THEN [value |-> KwDict(kw)[k], depth |-> Len(stack), undone |-> FALSE]
        ELSE unclosed[k]]

\* The innermost with-block ends: a permanent override made inside it is now
\* at the depth of the enclosing blocks, and is undone when the block had
\* captured the name before that override.
unclosed_exit ==
    [k \in DOMAIN unclosed |->
        [value |-> unclosed[k].value,
         depth |-> IF unclosed[k].depth < Len(stack) THEN unclosed[k].depth
                   ELSE Len(stack) - 1,
         undone |-> \/ unclosed[k].undone
                    \/ /\ Len(stack) <= unclosed[k].depth
                       /\ k \in DOMAIN stack[Len(stack)].original_values]]

\* The names that parse_args(argv) writes: all of them when the class has
\* groups, else those whose flag was given; none on a usage error.
parse_args_written(argv) ==
    IF parser_parse(argv, 1, parser_defaults).error THEN {}
    ELSE IF groups # <<>> THEN DOMAIN settings
    ELSE {n \in DOMAIN settings :
            \E i \in DOMAIN argv : argv[i][1] = config_name_to_option(n)}

\* The argument lists whose options exist on the class with groups and whose
\* values are of the option's type (--configuration is still unknown to the
\* parser of a class without groups).
WellFormedArgvs ==
    UNION {[1..n -> {p \in ArgPairs : p[1] # "--bogus" /\ p[2] \notin {"x", "True", "baz"}}]
              : n \in 0..MaxArgs}

\* override(NAME=value) of one existing name, as in the tests.
OneKwArgs == {kw \in ValidKwArgs : Len(kw) = 1}

NextUnclosed ==
    \/ \E kw \in OneKwArgs :
          /\ override(kw)
          /\ unclosed' = unclosed_override(kw)
          /\ UNCHANGED <<vals, namespace, other>>
    \/ \E kw \in OneKwArgs :
          /\ with_override(kw)
          /\ UNCHANGED <<vals, unclosed, namespace, other>>
    \/ /\ with_exit
       /\ unclosed' = unclosed_exit
       /\ UNCHANGED <<vals, namespace, other>>
    \/ /\ reset_to_defaults
       /\ unclosed' = EmptyDict
       /\ UNCHANGED <<vals, namespace, other>>
    \/ \E g \in Range(groups) :
          /\ set_group(g)
          /\ unclosed' = EmptyDict
          /\ UNCHANGED <<vals, namespace, other>>
    \/ \E argv \in WellFormedArgvs :
          /\ parse_args(argv)
          /\ unclosed' = [k \in DOMAIN unclosed \ parse_args_written(argv) |-> unclosed[k]]
          /\ UNCHANGED <<vals, namespace, other>>
    \/ catch /\ UNCHANGED <<vals, unclosed, namespace, other>>

SpecUnclosed == Init /\ [][NextUnclosed]_vars

\* The argument lists of at most one option.
ShortArgvs == {argv \in WellFormedArgvs : Len(argv) <= 1}

\* Override handles that the program keeps and closes itself, in any order:
\* h = config.override(...), later h.__exit__(None, None, None).
remove_at(st, i) == SubSeq(st, 1, i - 1) \o SubSeq(st, i + 1, Len(st))

\* Mutant: closing any handle writes back what the newest handle captured.
close_values_newest(i) == OverrideContextManager_exit(stack[Len(stack)])

\* The current values after the i-th open handle's __exit__.
close_values(i) == OverrideContextManager_exit(stack[i])

close(i) ==
    /\ i \in DOMAIN stack
    /\ cur' = close_values(i)
    /\ stack' = remove_at(stack, i)
    /\ exc' = IF exit_suppresses THEN "none" ELSE exc
    /\ last' = [Op("close") EXCEPT !.keys = DOMAIN stack[i].original_values]
    /\ UNCHANGED <<groups, settings>>

\* vals records the values before the first handle and the keyword values of
\* every handle created since no handle was open, at most MaxDepth of them.
NextHandles ==
    \/ \E kw \in ValidKwArgs :
          /\ stack = <<>> \/ Len(vals) <= MaxDepth
          /\ with_override(kw)
          /\ vals' = (IF stack = <<>> THEN <<cur>> ELSE vals) \o <<KwDict(kw)>>
          /\ UNCHANGED <<unclosed, namespace, other>>
    \/ \E i \in 1..MaxDepth :
          /\ close(i)
          /\ UNCHANGED <<vals, unclosed, namespace, other>>

SpecHandles == Init /\ [][NextHandles]_vars

\* override called with the names of the class attributes that are not
\* settings: new_namespace['groups'] and new_namespace['_settings'] exist on
\* every configuration class, so hasattr(cls, key) holds for them.
ClassAttrs == {"groups", "_settings"}

\* The values passed for them: a groups list, a settings table.
OtherGroups == {<<>>, <<"baz">>}
OtherSettings ==
    { [n \in SettingNames |-> Setting(IF n = "S1" THEN PyInt("1000") ELSE PyBool("False"), EmptyDict)] }

\* config.override(groups=names), the handle dropped: setattr(cls, 'groups',
\* names).
override_groups(names) ==
    /\ exc = "none"
    /\ "groups" \in ClassAttrs
    /\ groups' = names
    /\ last' = [Op("override") EXCEPT !.keys = {"groups"}]
    /\ UNCHANGED <<settings, cur, stack, exc>>

\* config.override(_settings=table), the handle dropped.
override_settings(table) ==
    /\ exc = "none"
    /\ "_settings" \in ClassAttrs
    /\ settings' = table
    /\ last' = [Op("override") EXCEPT !.keys = {"_settings"}]
    /\ UNCHANGED <<groups, cur, stack, exc>>

NextAttrs ==
    \/ \E g \in GroupArgs : set_group(g) /\ UNCHANGED <<vals, unclosed, namespace, other>>
    \/ reset_to_defaults /\ UNCHANGED <<vals, unclosed, namespace, other>>
    \/ \E kw \in KwArgs : override(kw) /\ UNCHANGED <<vals, unclosed, namespace, other>>
    \/ \E kw \in OneKwArgs : with_override(kw) /\ UNCHANGED <<vals, unclosed, namespace, other>>
    \/ with_exit /\ UNCHANGED <<vals, unclosed, namespace, other>>
    \/ \E names \in OtherGroups :
          override_groups(names) /\ UNCHANGED <<vals, unclosed, namespace, other>>
    \/ \E table \in OtherSettings :
          override_settings(table) /\ UNCHANGED <<vals, unclosed, namespace, other>>
    \/ \E argv \in ShortArgvs : parse_args(argv) /\ UNCHANGED <<vals, unclosed, namespace, other>>
    \/ catch /\ UNCHANGED <<vals, unclosed, namespace, other>>

SpecAttrs == Init /\ [][NextAttrs]_vars

\* Two classes, compared by == and by to_hash_string while the operations
\* change the current values of the first. The second class is declared from
\* one of these bodies: settings of the first class's names or of another
\* name, by Setting or by shorthand, in any order, with or without groups.
EqItems ==
    {SettingItem("S1", PyInt("10"), [g \in {"foo"} |-> PyInt("20")]),
     SettingItem("S1", PyInt("10"), EmptyDict),
     ValueItem("S1", PyInt("10")), ValueItem("S1", PyInt("100")),
     SettingItem("SECOND_OPTION", PyBool("True"), [g \in {"bar"} |-> PyBool("False")]),
     ValueItem("SECOND_OPTION", PyBool("True")), ValueItem("SECOND_OPTION", PyBool("False")),
     ValueItem("FOO", PyInt("10")), ValueItem("FOO", PyInt("100"))}

DistinctKeys(ns) == \A i, j \in DOMAIN ns : ns[i].key = ns[j].key => i = j

EqBodies ==
    LET items == {ns \in UNION {[1..n -> EqItems] : n \in 1..MaxBody} : DistinctKeys(ns)} IN
    items \cup {<<GroupsItem(<<"foo", "bar">>)>> \o ns : ns \in items}

EqClasses ==
    {class_statement(<<>>, ns).cls : ns \in {b \in EqBodies : ~class_statement(<<>>, b).raised}}

InitEq ==
    \E gl \in GroupLists : \E s \in Declarations(gl) :
        /\ groups = gl
        /\ settings = s
        /\ cur = [n \in DOMAIN s |-> s[n].default]
        /\ stack = <<>>
        /\ exc = "none"
        /\ last = Op("declare")
        /\ vals = <<>>
        /\ unclosed = EmptyDict
        /\ namespace = ClassBody(gl)
        /\ other \in EqClasses

NextEq ==
    \/ \E g \in Range(groups) : set_group(g) /\ UNCHANGED <<vals, unclosed, namespace, other>>
    \/ reset_to_defaults /\ UNCHANGED <<vals, unclosed, namespace, other>>
    \/ \E kw \in OneKwArgs : override(kw) /\ UNCHANGED <<vals, unclosed, namespace, other>>
    \/ \E argv \in ShortArgvs : parse_args(argv) /\ UNCHANGED <<vals, unclosed, namespace, other>>
    \/ catch /\ UNCHANGED <<vals, unclosed, namespace, other>>

SpecEq == InitEq /\ [][NextEq]_vars

\* Class statements: a body of up to MaxBody items, with or without the
\* line groups = ['foo', 'bar'] above or below them, is declared; the class
\* then has its groups selected and is subclassed.
DeclKeys == {"FOO", "Abc", "adsf", "_X"}

\* What a body assigns to a key, as the arguments of Item.
DeclValues ==
    {<<"Setting", PyInt("10"), EmptyDict>>,
     <<"Setting", PyInt("10"), [g \in {"foo"} |-> PyInt("20")]>>,
     <<"Setting", PyInt("10"), [g \in {"foo"} |-> PyStr("a")]>>,
     <<"Setting", None, [g \in {"foo", "bar"} |-> IF g = "foo" THEN PyInt("20") ELSE PyStr("a")]>>,
     <<"Setting", PyList("[10, 20]"), [g \in {"foo"} |-> PyList("[30, 40]")]>>,
     <<"value", PyInt("10"), EmptyDict>>,
     <<"value", PyList("[10, 20]"), EmptyDict>>,
     <<"value", PyDict("{'a': 1}"), EmptyDict>>,
     <<"function", None, EmptyDict>>}

DeclItems == {Item(k, v[1], v[2], v[3], <<>>) : k \in DeclKeys, v \in DeclValues}

DeclBodies ==
    LET items == {ns \in UNION {[1..n -> DeclItems] : n \in 1..MaxBody} : DistinctKeys(ns)} IN
    items \cup {<<GroupsItem(<<"foo", "bar">>)>> \o ns : ns \in items}
          \cup {ns \o <<GroupsItem(<<"foo", "bar">>)>> : ns \in items}

\* The bodies of the subclasses: empty (pass), or one more setting.
SubBodies == {<<>>, <<ValueItem("S1", PyInt("10"))>>, <<SettingItem("S1", PyInt("10"), EmptyDict)>>}

InitDeclare ==
    /\ namespace \in DeclBodies
    /\ groups = <<>>
    /\ settings = EmptyDict
    /\ cur = EmptyDict
    /\ stack = <<>>
    /\ exc = "none"
    /\ last = Op("class")
    /\ vals = <<>>
    /\ unclosed = EmptyDict
    /\ other = NoClass

\* class config(Config): <namespace>
declare ==
    /\ last.op = "class"
    /\ LET r == class_statement(<<"Config">>, namespace) IN
       /\ groups' = r.cls.groups
       /\ settings' = r.cls.settings
       /\ cur' = r.cls.attrs
       /\ exc' = IF r.raised THEN "ValueError" ELSE exc
       /\ last' = [Op("declare") EXCEPT !.ok = ~r.raised]
    /\ UNCHANGED <<stack, vals, unclosed, namespace, other>>

\* The class statement has created the class.
Declared == last.op # "class" /\ ~(last.op = "declare" /\ ~last.ok)

\* class sub(config): <ns>
subclass(ns) ==
    /\ Declared
    /\ exc = "none"
    /\ other = NoClass
    /\ LET r == class_statement(<<"config">>, ns) IN
       /\ other' = r.cls
       /\ exc' = IF r.raised THEN "ValueError" ELSE exc
       /\ last' = [Op("subclass") EXCEPT !.ok = ~r.raised]
    /\ UNCHANGED <<groups, settings, cur, stack, vals, unclosed, namespace>>

NextDeclare ==
    \/ declare
    \/ \E g \in GroupNames :
          Declared /\ set_group(g) /\ UNCHANGED <<vals, unclosed, namespace, other>>
    \/ Declared /\ reset_to_defaults /\ UNCHANGED <<vals, unclosed, namespace, other>>
    \/ \E ns \in SubBodies : subclass(ns)
    \/ Declared /\ catch /\ UNCHANGED <<vals, unclosed, namespace, other>>

SpecDeclare == InitDeclare /\ [][NextDeclare]_vars

\* ================================================================ claims
Top(st) == st[Len(st)]

\* C1: when a with-block of override(**kv) ends, by normal completion or with
\* an exception propagating, every name of kv holds the value it held just
\* before the override was applied, whatever ran inside the block; the block is
\* closed by that one restore, and the exception still propagates.
C1_ScopedOverrideRestores ==
    [][last'.op = "with_exit" =>
          /\ \A k \in DOMAIN Top(stack).pre : cur'[k] = Top(stack).pre[k]
          /\ stack' = SubSeq(stack, 1, Len(stack) - 1)
          /\ exc' = exc]_vars

\* A block that had overridden both settings was left by a ValueError raised
\* inside it, the error is still propagating, and both settings are back at
\* the defaults they held before the override.
C1_Witness ==
    /\ last.op = "with_exit"
    /\ exc = "ValueError"
    /\ stack = <<>>
    /\ last.keys = {"S1", "SECOND_OPTION"}
    /\ cur = reset_values

\* The value of X that the blocks vals[2..d] and the values before them
\* (vals[1]) leave: that of the innermost block naming X, else the one before.
NestedValue(X, d) ==
    LET named == {i \in 2..d : X \in DOMAIN vals[i]} IN
    IF named = {} THEN vals[1][X]
    ELSE vals[CHOOSE i \in named : \A j \in named : j <= i][X]

\* C2: nested with-blocks unwind in LIFO order: closing a block leaves each of
\* its names at the value of the innermost enclosing block that names it, and
\* at the value before the outermost block when none does, at any depth.
C2_NestedOverridesLIFO ==
    [][last'.op = "with_exit" =>
          \A X \in DOMAIN vals[Len(vals)] : cur'[X] = NestedValue(X, Len(vals) - 1)]_vars

\* The inner block on S1 was closed inside an open block on S1, and S1 holds
\* the outer block's value, which is not the value before the blocks.
C2_Witness ==
    /\ last.op = "with_exit"
    /\ "S1" \in last.keys
    /\ Len(stack) = 1
    /\ "S1" \in DOMAIN vals[2]
    /\ cur["S1"] = vals[2]["S1"]
    /\ cur["S1"] # vals[1]["S1"]

\* C3: closing a with-block writes only the names passed to its override
\* call; every other setting keeps its current value.
C3_ExitWritesOnlyItsNames ==
    [][last'.op = "with_exit" =>
          \A n \in DOMAIN cur \ DOMAIN Top(stack).pre : cur'[n] = cur[n]]_vars

\* An inner block on SECOND_OPTION was closed inside an open block on S1, and
\* S1 still holds the outer override's value.
C3_Witness ==
    /\ last.op = "with_exit"
    /\ last.keys = {"SECOND_OPTION"}
    /\ Len(stack) = 1
    /\ DOMAIN Top(stack).pre = {"S1"}
    /\ cur["S1"] = PyInt("1000")
    /\ Top(stack).pre["S1"] # PyInt("1000")

\* C4: reset_to_defaults never fails and leaves every setting at its default,
\* from any reachable state; a second call in a row changes nothing.
C4_ResetToDefaults ==
    [][last'.op = "reset_to_defaults" =>
          /\ \A n \in DOMAIN settings : cur'[n] = settings[n].default
          /\ exc' = "none"
          /\ last'.ok
          /\ (last.op = "reset_to_defaults" => cur' = cur)]_vars

\* reset_to_defaults ran inside a with-block that was opened over a permanent
\* override of S1.
C4_Witness ==
    /\ last.op = "reset_to_defaults"
    /\ stack # <<>>
    /\ "S1" \in DOMAIN Top(stack).pre
    /\ Top(stack).pre["S1"] = PyInt("100")
    /\ cur["S1"] = PyInt("10")

\* C5: set_group(g) of a declared group g is accepted and leaves every
\* setting at group_values[g] when it has one and at its default otherwise,
\* whatever the values before the call.
C5_SetGroup ==
    (last.op = "set_group" /\ last.group \in Range(groups)) =>
        /\ last.ok
        /\ exc = "none"
        /\ \A s \in DOMAIN settings :
              cur[s] = IF last.group \in DOMAIN settings[s].group_values
                       THEN settings[s].group_values[last.group]
                       ELSE settings[s].default

\* set_group('foo') ran inside a block that had overridden both settings: S1
\* has foo's value and SECOND_OPTION, which has none, its default.
C5_Witness ==
    /\ last.op = "set_group"
    /\ last.group = "foo"
    /\ stack # <<>>
    /\ DOMAIN Top(stack).pre = {"S1", "SECOND_OPTION"}
    /\ cur["S1"] = PyInt("20")
    /\ cur["SECOND_OPTION"] = PyBool("True")

\* C6 (as claimed): set_group("default") is accepted on every class and sets
\* every setting to its default.
C6_SetGroupDefaultAccepted ==
    (last.op = "set_group" /\ last.group = "default") =>
        /\ last.ok
        /\ exc = "none"
        /\ cur = reset_values

\* C7: set_group(name) with a name that is neither a declared group nor
\* "default" raises ValueError and leaves every current value as it was.
C7_SetGroupUnknown ==
    [][(last'.op = "set_group" /\ last'.group \notin Range(groups) \cup {"default"}) =>
          /\ ~last'.ok
          /\ exc' = "ValueError"
          /\ cur' = cur]_vars

\* set_group('baz') was refused on the class with groups while both settings
\* held overridden values.
C7_Witness ==
    /\ last.op = "set_group"
    /\ last.group = "baz"
    /\ groups # <<>>
    /\ exc = "ValueError"
    /\ cur["S1"] = PyInt("1000")
    /\ cur["SECOND_OPTION"] = PyBool("False")

\* C8 (as claimed): an override call that names an unknown setting raises with
\* no partial mutation: every setting holds the value it held before the call.
C8_OverrideUnknownAtomic ==
    [][(last'.op \in {"override", "with_override"} /\ ~last'.ok) =>
          /\ exc' = "ValueError"
          /\ cur' = cur]_vars

\* The option of setting n is among the arguments.
FlagGiven(argv, n) == \E i \in DOMAIN argv : argv[i][1] = config_name_to_option(n)

\* The token of the last occurrence of one of the options.
LastToken(argv, options) ==
    LET at == {i \in DOMAIN argv : argv[i][1] \in options} IN
    argv[CHOOSE i \in at : \A j \in at : j <= i][2]

\* The configuration the arguments select.
SelectedConfiguration(argv) ==
    IF \E i \in DOMAIN argv : argv[i][1] \in {"--configuration", "-c"}
    THEN LastToken(argv, {"--configuration", "-c"})
    ELSE "default"

\* The value a flag's token stands for: the integer of an int literal, the
\* boolean of 'true' / 'false'.
FlagValue(n, token) ==
    IF settings[n].type = "int" THEN PyInt(IF token = "0100" THEN "100" ELSE token)
    ELSE PyBool(IF token = "true" THEN "True" ELSE "False")

\* C9: after a successful parse_args on a class with groups, every setting
\* whose flag was given holds the flag's value and every other setting the
\* selected configuration's value, else its default, wherever --configuration
\* stands among the arguments and whatever the values before the call.
C9_ParseArgsPrecedence ==
    (last.op = "parse_args" /\ last.ok /\ groups # <<>>) =>
        \A n \in DOMAIN settings :
            cur[n] = IF FlagGiven(last.argv, n)
                     THEN FlagValue(n, LastToken(last.argv, {config_name_to_option(n)}))
                     ELSE IF SelectedConfiguration(last.argv) \in DOMAIN settings[n].group_values
                     THEN settings[n].group_values[SelectedConfiguration(last.argv)]
                     ELSE settings[n].default

\* --s1 0100 came before --configuration foo: S1 holds the flag's 100, not
\* foo's 20.
C9_Witness ==
    /\ last.op = "parse_args"
    /\ last.ok
    /\ last.argv = <<<<"--s1", "0100">>, <<"--configuration", "foo">>>>
    /\ cur["S1"] = PyInt("100")
    /\ settings["S1"].group_values["foo"] = PyInt("20")

\* An option/value pair that parse_args must refuse.
Malformed(pair) ==
    \/ pair[1] \notin {"--s1", "--second-option"}
                      \cup (IF groups # <<>> THEN {"--configuration", "-c"} ELSE {})
    \/ pair[1] = "--s1" /\ pair[2] \notin {"100", "0100"}
    \/ pair[1] = "--second-option" /\ pair[2] \notin {"true", "false"}
    \/ pair[1] \in {"--configuration", "-c"} /\ pair[2] \notin {"default"} \cup Range(groups)

\* C10: parse_args fails on an unknown flag, a value that is not of the
\* setting's type, a boolean token other than true/false and a configuration
\* outside 'default' plus groups; when it fails the process is left with
\* SystemExit and a non-zero status, and no setting has been written.
C10_ParseArgsFailure ==
    [][last'.op = "parse_args" =>
          /\ (\E i \in DOMAIN last'.argv : Malformed(last'.argv[i])) => ~last'.ok
          /\ ~last'.ok => /\ exc' = "SystemExit"
                          /\ last'.status # 0
                          /\ cur' = cur]_vars

\* --configuration foo and then a malformed --s1: parse_args failed, and
\* S1 and SECOND_OPTION hold their overridden values, not foo's.
C10_Witness ==
    /\ last.op = "parse_args"
    /\ ~last.ok
    /\ last.argv = <<<<"--configuration", "foo">>, <<"--s1", "x">>>>
    /\ groups # <<>>
    /\ exc = "SystemExit"
    /\ cur["S1"] = PyInt("1000")
    /\ cur["SECOND_OPTION"] = PyBool("False")

\* A with-block opened after the permanent override of k, and naming k, is
\* still open.
LaterBlockOpen(k) ==
    \E i \in (unclosed[k].depth + 1)..Len(stack) : k \in DOMAIN stack[i].original_values

\* C11 (as claimed): the value of a permanent override persists until a later
\* override of that name, reset_to_defaults, set_group or parse_args writes
\* it; the exit of a later with-block of that name restores it.
C11_UnclosedOverridePersists ==
    \A k \in DOMAIN unclosed : ~LaterBlockOpen(k) => cur[k] = unclosed[k].value

\* C11 (amended): the value of a permanent override persists until a later
\* override of that name, reset_to_defaults, set_group, parse_args, or the
\* exit of a with-block of that name that was open at the override, writes it;
\* the exit of a later with-block of that name restores it, and
\* reset_to_defaults afterwards gives the default.
C11_UnclosedOverridePersistsUntilWritten ==
    /\ \A k \in DOMAIN unclosed :
          (~LaterBlockOpen(k) /\ ~unclosed[k].undone) => cur[k] = unclosed[k].value
    /\ last.op = "reset_to_defaults" => cur = reset_values

\* override(S1=100) was never closed; a later with-block on S1 has ended and
\* S1 is back at 100, not at its default 10.
C11_Witness ==
    /\ last.op = "with_exit"
    /\ "S1" \in last.keys
    /\ stack = <<>>
    /\ "S1" \in DOMAIN unclosed
    /\ ~unclosed["S1"].undone
    /\ unclosed["S1"].value = PyInt("100")
    /\ cur["S1"] = PyInt("100")
    /\ settings["S1"].default = PyInt("10")

\* The two classes have the same setting names and the same current values.
SameNamesAndValues(c, d) ==
    /\ DOMAIN c.settings = DOMAIN d.settings
    /\ \A n \in DOMAIN c.settings : c.attrs[n] = d.attrs[n]

\* C12: two classes with identical setting names and identical current values
\* compare equal and give equal hash strings, whatever the order of
\* declaration, Setting or shorthand, and the groups lists.
C12_EqualClassesEqualHash ==
    SameNamesAndValues(ThisClass, other) =>
        /\ ConfigMeta_eq(ThisClass, other)
        /\ ConfigMeta_eq(other, ThisClass)
        /\ to_hash_string(ThisClass) = to_hash_string(other)

\* The class with groups, its settings declared by Setting, now at S1 = 100
\* after an override, equals a class without groups that declares
\* SECOND_OPTION = True before S1 = 100 by shorthand.
C12_Witness ==
    /\ groups = <<"foo", "bar">>
    /\ last.op = "override"
    /\ cur["S1"] = PyInt("100")
    /\ other.groups = <<>>
    /\ other.order = <<"SECOND_OPTION", "S1">>
    /\ other.settings["S1"].group_values = EmptyDict
    /\ SameNamesAndValues(ThisClass, other)
    /\ ConfigMeta_eq(ThisClass, other)

\* C13 (as claimed): equality is a function of the (sorted setting name,
\* current value) pairs: two classes that differ in their set of setting
\* names, or in the current value of some setting, are not equal and do not
\* have the same hash.
C13_DifferentClassesUnequal ==
    ~SameNamesAndValues(ThisClass, other) =>
        /\ ~ConfigMeta_eq(ThisClass, other)
        /\ ConfigMeta_hash(ThisClass) # ConfigMeta_hash(other)

\* The whole key is an uppercase letter followed by uppercase letters, digits
\* and underscores.
FullyMatches(key) ==
    /\ KeyChars[key][1] \in Upper
    /\ \A i \in 2..Len(KeyChars[key]) : KeyChars[key][i] \in Upper \cup Digits \cup {"_"}

\* C14 (as claimed): every name in _settings fully matches [A-Z][A-Z0-9_]*,
\* and a class statement that declares a Setting, or a non-callable value
\* under a name without a leading underscore, under any other name fails.
C14_SettingNamesFullyMatch ==
    /\ Declared => \A n \in DOMAIN settings : FullyMatches(n)
    /\ (last.op = "declare" /\
        \E i \in DOMAIN namespace :
            /\ namespace[i].key # "groups"
            /\ ~FullyMatches(namespace[i].key)
            /\ \/ namespace[i].kind = "Setting"
               \/ namespace[i].kind = "value" /\ KeyChars[namespace[i].key][1] # "_")
       => ~last.ok

\* The groups that the class body declares, wherever its groups line stands.
BodyGroups(ns) == UNION {Range(ns[i].names) : i \in DOMAIN ns}

\* C15: in every declared class every key of every Setting's group values is
\* a member of groups; a class statement with a group key outside the groups
\* of its body (any key when there is no groups line) fails; and a body of
\* well-formed settings whose group keys are all declared is accepted
\* whether the groups line stands above or below the settings.
C15_GroupKeysDeclared ==
    /\ Declared =>
          \A n \in DOMAIN settings : DOMAIN settings[n].group_values \subseteq Range(groups)
    /\ (last.op = "declare" /\
        \E i \in DOMAIN namespace :
            /\ namespace[i].kind = "Setting"
            /\ ~(DOMAIN namespace[i].kwargs \subseteq BodyGroups(namespace)))
       => ~last.ok
    /\ (last.op = "declare" /\
        \A i \in DOMAIN namespace :
            \/ namespace[i].key = "groups"
            \/ /\ namespace[i].kind = "Setting"
               /\ namespace[i].default.type = "int"
               /\ FullyMatches(namespace[i].key)
               /\ DOMAIN namespace[i].kwargs \subseteq BodyGroups(namespace))
       => /\ last.ok
          /\ Range(groups) = BodyGroups(namespace)
          /\ \A i \in DOMAIN namespace :
                namespace[i].key # "groups" =>
                    settings[namespace[i].key].group_values = namespace[i].kwargs

\* FOO = setting(10, foo=20) stands above the line groups = ['foo', 'bar'],
\* and the class was created with FOO's value for foo.
C15_Witness ==
    /\ last.op = "declare"
    /\ last.ok
    /\ Len(namespace) = 2
    /\ namespace[1].key = "FOO"
    /\ namespace[2].key = "groups"
    /\ groups = <<"foo", "bar">>
    /\ "foo" \in DOMAIN settings["FOO"].group_values

\* C16 (as claimed): a class body whose settings have a sequence or a mapping
\* as default, declared by Setting(...) or by shorthand under well-formed
\* names and with declared groups, creates the class, and every such setting
\* holds its default.
C16_SequenceAndMappingDefaults ==
    (last.op = "declare" /\
     \A i \in DOMAIN namespace :
         \/ namespace[i].key = "groups"
         \/ /\ namespace[i].kind \in {"Setting", "value"}
            /\ namespace[i].default.type \in {"list", "dict"}
            /\ FullyMatches(namespace[i].key)
            /\ DOMAIN namespace[i].kwargs \subseteq BodyGroups(namespace)
            /\ \A g \in DOMAIN namespace[i].kwargs :
                  namespace[i].kwargs[g].type = namespace[i].default.type)
    => /\ last.ok
       /\ \A i \in DOMAIN namespace :
             namespace[i].key # "groups" =>
                 /\ namespace[i].key \in DOMAIN settings
                 /\ cur[namespace[i].key] = namespace[i].default

\* C17 (as claimed): after a successful parse_args every setting whose flag
\* was not given holds the selected configuration's value, else its default,
\* whatever it held before the call, on a class with or without groups.
C17_ParseArgsFallsBack ==
    (last.op = "parse_args" /\ last.ok) =>
        \A n \in DOMAIN settings :
            ~FlagGiven(last.argv, n) =>
                cur[n] = IF SelectedConfiguration(last.argv) \in DOMAIN settings[n].group_values
                         THEN settings[n].group_values[SelectedConfiguration(last.argv)]
                         ELSE settings[n].default

\* C18 (as claimed): groups and the _settings table are fixed at declaration
\* time: no call of set_group, reset_to_defaults, parse_args or override, with
\* any keyword names, scoped or not, changes them.
C18_GroupsAndSettingsFixed ==
    [][groups' = groups /\ settings' = settings]_vars

\* C19 (as claimed): the _settings table of a subclass of a configuration
\* class extends the table of that class: it holds the parent's settings as
\* well as the ones of the subclass's body.
C19_SubclassExtendsSettings ==
    (last.op = "subclass" /\ last.ok) =>
        /\ DOMAIN settings \subseteq DOMAIN other.settings
        /\ \A n \in DOMAIN settings : other.settings[n] = settings[n]

\* C20 (as claimed): in every declared class each group value of a setting
\* has the setting's type, a class statement with a Setting whose group value
\* is of another type fails, and set_group leaves every current value of the
\* setting's type.
C20_GroupValuesOfSettingType ==
    /\ Declared =>
          \A n \in DOMAIN settings : \A g \in DOMAIN settings[n].group_values :
              settings[n].group_values[g].type = settings[n].type
    /\ (last.op = "declare" /\
        \E i \in DOMAIN namespace :
            /\ namespace[i].kind = "Setting"
            /\ \E g \in DOMAIN namespace[i].kwargs :
                  namespace[i].kwargs[g].type
                      # SettingTypeOf(namespace[i].default, namespace[i].kwargs))
       => ~last.ok
    /\ (last.op = "set_group" /\ last.ok) =>
          \A n \in DOMAIN settings : cur[n].type = settings[n].type

\* C21: closing a handle writes back exactly the values captured when that
\* handle was created, whatever other handles are open, and leaves the other
\* handles as they are. So with two handles created on X, the second while
\* the first was open, X ends at the first handle's value a when the first is
\* closed first, and at the value before both when the second is closed
\* first.
C21_CloseWritesCapturedValues ==
    [][last'.op = "close" =>
          /\ \E i \in DOMAIN stack :
                /\ stack' = remove_at(stack, i)
                /\ \A k \in DOMAIN cur :
                      cur'[k] = IF k \in DOMAIN stack[i].pre THEN stack[i].pre[k] ELSE cur[k]
          /\ \A X \in DOMAIN cur :
                (Len(stack) = 1 /\ Len(vals) = 3 /\ X \in DOMAIN vals[2] /\ X \in DOMAIN vals[3])
                => /\ stack[1].pre[X] \in {vals[1][X], vals[2][X]}
                   /\ cur'[X] = stack[1].pre[X]]_vars

\* h1 = override(S1=100) and then h2 = override(S1=1000) were created from
\* S1 = 10, and both are closed: S1 is left at h1's 100, which only closing h1
\* before h2 can give.
C21_Witness ==
    /\ last.op = "close"
    /\ stack = <<>>
    /\ Len(vals) = 3
    /\ vals[1]["S1"] = PyInt("10")
    /\ vals[2] = [k \in {"S1"} |-> PyInt("100")]
    /\ vals[3] = [k \in {"S1"} |-> PyInt("1000")]
    /\ cur["S1"] = PyInt("100")
====
